---- MODULE Spec2Model ----
(***************************************************************************)
(* A model of the python-env-benchmark harness: the reproducibility        *)
(* tester (test_reproducibility.py), the installation benchmark            *)
(* (test_benchmark.py), the DX evaluator (evaluate_dx.py) and the report   *)
(* generator (generate_report.py).                                         *)
(*                                                                         *)
(* The scripts are sequential programs that communicate through JSON files *)
(* only, so each script is one or a few actions and the file system is the *)
(* shared state.  Floating point values are modelled as exact rationals    *)
(* <<numerator, denominator>>; a float division by zero raises             *)
(* ZeroDivisionError in Python and is modelled as an error outcome.        *)
(***************************************************************************)
EXTENDS Integers, Sequences, FiniteSets, TLC

VARIABLES
    rp_pc,          \* test_tool_reproducibility: "loop" or "done"
    rp_script,      \* whether scripts/install_<tool>.sh exists
    hashes,         \* test_tool_reproducibility: the list `hashes`
    results,        \* test_tool_reproducibility: the list `results`
    rp_record,      \* the record test_tool_reproducibility returns ("None" before)
    rp_iterations,  \* test_tool_reproducibility: the argument `iterations`
    rp_pass         \* the locals of the loop pass, where they are followed:
                    \* `result`, the venv the script left, the fallback's use

VARIABLES
    clock,          \* the wall clock, in seconds since the model's epoch
    raw,            \* benchmark_results/raw: a set of [prefix, suffix, content]
    legacy,         \* the working directory: <prefix>.json -> content or None
    reports,        \* benchmark_results/report_<stamp>: a set of [stamp, md]
    latest_report,  \* benchmark_results/latest_report.md (None when absent)
    error,          \* the exception that ended the last script run, or "none"
    gen,            \* locals of the last generate_markdown_report run
    load_result,    \* the value of the last direct load_latest_json call
    invocation,     \* the last run of the report generator: its command line
                    \* and the report directories it started from
    last_run        \* metric -> the results its last benchmark run produced

VARIABLES
    dx_eval,        \* evaluate_tool_dx: its position, locals and the processes
                    \* it started (None while it is not running)
    install_run     \* test_installation_speed: the same for the benchmark loop

repro_vars == <<rp_pc, rp_script, hashes, results, rp_record, rp_iterations, rp_pass>>
fs_vars == <<raw, legacy, reports, latest_report>>
report_vars == <<clock, raw, legacy, reports, latest_report, error, gen, load_result,
                 invocation, last_run>>
tool_vars == <<dx_eval, install_run>>
vars == <<rp_pc, rp_script, hashes, results, rp_record, rp_iterations, rp_pass,
          clock, raw, legacy, reports, latest_report, error, gen, load_result,
          invocation, last_run, dx_eval, install_run>>

\* Python's None where the other values are strings
None == "None"

\* Python's None where the other values are records
NoneRec == [none |-> TRUE]

Range(s) == {s[i] : i \in DOMAIN s}

(***************************************************************************)
(* Numbers: Python floats as exact rationals <<n, d>> with d > 0, reduced  *)
(***************************************************************************)

Abs(x) == IF x < 0 THEN -x ELSE x

RECURSIVE GCD(_, _)
GCD(a, b) == IF b = 0 THEN a ELSE GCD(b, a % b)

Rat(n, d) ==
    LET g == GCD(Abs(n), Abs(d))
        s == IF d < 0 THEN -1 ELSE 1
    IN  <<(s * n) \div g, (s * d) \div g>>

R(i) == <<i, 1>>
RAdd(a, b) == Rat(a[1] * b[2] + b[1] * a[2], a[2] * b[2])
RSub(a, b) == Rat(a[1] * b[2] - b[1] * a[2], a[2] * b[2])
RMul(a, b) == Rat(a[1] * b[1], a[2] * b[2])
\* a / b for b # 0 (Python raises ZeroDivisionError for b = 0)
RDiv(a, b) == Rat(a[1] * b[2], a[2] * b[1])
RLe(a, b) == a[1] * b[2] <= b[1] * a[2]
RLt(a, b) == a[1] * b[2] < b[1] * a[2]

\* f"{x:.1f}" (scale 10) and f"{x:.2f}" (scale 100): x rounded to that many
\* decimals (ties to even), as a number of tenths or hundredths
Fmt(x, scale) ==
    LET n == scale * x[1]
        q == n \div x[2]
        r == n % x[2]
    IN  IF 2 * r > x[2] \/ (2 * r = x[2] /\ q % 2 = 1) THEN q + 1 ELSE q

\* Python's None where the other values are numbers
NoNum == <<0, 0>>
IsNum(x) == x[2] # 0

(***************************************************************************)
(* Python lists and dicts                                                  *)
(***************************************************************************)

\* the element of a one-element set
Only(S) == CHOOSE result \in S : TRUE

\* list.index(x): the first position of x
IndexOf(s, x) == CHOOSE i \in DOMAIN s : s[i] = x /\ \A j \in DOMAIN s : s[j] = x => i <= j

\* [f(s[i]) for i], keeping the positions whose element satisfies the test
RECURSIVE SelectIdx(_, _)
SelectIdx(s, keep) ==
    IF s = <<>> THEN <<>>
    ELSE LET rest == SelectIdx(SubSeq(s, 1, Len(s) - 1), keep)
         IN  IF Len(s) \in keep THEN Append(rest, s[Len(s)]) ELSE rest

\* the orderings of the elements of a finite set
RECURSIVE Orderings(_)
Orderings(S) ==
    IF S = {} THEN {<<>>}
    ELSE UNION {{Append(p, x) : p \in Orderings(S \ {x})} : x \in S}

\* the permutations of 1..n
Perms(n) == Orderings(1..n)

\* np.argsort(values): an index order that sorts the values ascending.  The
\* default kind ("quicksort") is not stable, so the order among equal values
\* depends on the numpy build: every ascending order is a possible result.
argsort(values) ==
    {p \in Perms(Len(values)) :
        \A i \in 1..(Len(values) - 1) : RLe(values[p[i]], values[p[i + 1]])}

\* a[::-1]
Reversed(s) == [i \in 1..Len(s) |-> s[Len(s) + 1 - i]]

\* np.argmax / np.argmin of a non-empty list: the first extreme position
argmax(values) ==
    CHOOSE i \in DOMAIN values :
        /\ \A j \in DOMAIN values : RLe(values[j], values[i])
        /\ \A j \in DOMAIN values : j < i => RLt(values[j], values[i])

\* the order of Python's string comparison on the names the model uses
NameOrder == <<"make", "piptools", "poetry", "scripts", "uv">>

\* sorted(names) for a set of names
sorted_names(S) == SelectIdx(NameOrder, {i \in DOMAIN NameOrder : NameOrder[i] \in S})

(***************************************************************************)
(* generate_report.py: the charts                                          *)
(***************************************************************************)

\* lines 43-83; `perm` is the result of np.argsort(times)
generate_installation_speed_chart(data, perm) ==
    LET tools == [i \in DOMAIN data.results |-> data.results[i].tool]
        times == [i \in DOMAIN data.results |-> data.results[i].execution_time]
    IN  [tools |-> [i \in DOMAIN perm |-> tools[perm[i]]],
         times |-> [i \in DOMAIN perm |-> times[perm[i]]]]

\* lines 86-112
generate_reproducibility_chart(data) ==
    [tools |-> [i \in DOMAIN data.tools |-> data.tools[i].tool],
     reproducible |-> [i \in DOMAIN data.tools |->
                          IF data.tools[i].reproducible THEN 1 ELSE 0]]

\* sum(1 for s in scenarios if s.get("success", False))
success_count(scenarios) == Cardinality({i \in DOMAIN scenarios : scenarios[i].success})

\* lines 202-203 with `//` in place of `/`: a plausible slip
success_rate_floor_division(scenarios) ==
    RMul(R(success_count(scenarios) \div Len(scenarios)), R(100))

\* lines 202-203
success_rate(scenarios) ==
    RMul(RDiv(R(success_count(scenarios)), R(Len(scenarios))), R(100))

\* lines 188-230: tools without scenarios are left out
generate_dx_chart(data) ==
    LET keep == {i \in DOMAIN data.tools : data.tools[i].scenarios # <<>>}
        kept == SelectIdx(data.tools, keep)
    IN  [tools |-> [i \in DOMAIN kept |-> kept[i].tool],
         success_rates |-> [i \in DOMAIN kept |-> success_rate(kept[i].scenarios)]]

\* lines 246-248: the tool name taken from a hyperfine command, given as the
\* "/"-separated parts of its last "&&" segment
hyperfine_tool(command) ==
    IF Len(command) > 1 THEN command[Len(command) - 1] ELSE command[1]

\* lines 233-307; `perm` is the result of np.argsort(mean_times)
generate_hyperfine_chart(data, perm) ==
    LET commands == [i \in DOMAIN data.results |-> hyperfine_tool(data.results[i].command)]
        means    == [i \in DOMAIN data.results |-> data.results[i].mean]
    IN  [commands |-> [i \in DOMAIN perm |-> commands[perm[i]]],
         mean_times |-> [i \in DOMAIN perm |-> means[perm[i]]]]

\* line 396 without the inversion: a plausible slip (the slowest scores 100)
speed_score_not_inverted(t, min_time, max_time) ==
    RMul(R(100), RDiv(RSub(t, min_time), RSub(max_time, min_time)))

\* line 396 as the percentage of the slowest time: a plausible slip (scores
\* leave 0..100)
speed_score_of_max(t, min_time, max_time) ==
    RMul(R(100), RDiv(max_time, t))

\* line 396: 100 * (1 - ((t - min_time) / (max_time - min_time))), max_time > min_time
speed_score(t, min_time, max_time) ==
    RMul(R(100), RSub(R(1), RDiv(RSub(t, min_time), RSub(max_time, min_time))))

\* line 431 with the weights re-normalised over the components present: the
\* policy the code does not follow
unified_score_reweighted(speed, repro, dx) ==
    LET w == RAdd(Rat(4, 10), RAdd(IF IsNum(repro) THEN Rat(4, 10) ELSE R(0),
                                   IF IsNum(dx) THEN Rat(2, 10) ELSE R(0)))
        total == RAdd(RMul(speed, Rat(4, 10)),
                      RAdd(RMul(IF IsNum(repro) THEN repro ELSE R(0), Rat(4, 10)),
                           RMul(IF IsNum(dx) THEN dx ELSE R(0), Rat(2, 10))))
    IN  RDiv(total, w)

\* lines 426-431: (speed * 0.4) + (repro * 0.4) + (dx * 0.2), None counting as 0
unified_score(speed, repro, dx) ==
    RAdd(RAdd(RMul(speed, Rat(4, 10)),
              RMul(IF IsNum(repro) THEN repro ELSE R(0), Rat(4, 10))),
         RMul(IF IsNum(dx) THEN dx ELSE R(0), Rat(2, 10)))

\* dict(zip(tools_hyper, times_hyper))[tool]: the last entry of that name
hyperfine_time(hyperfine_data, tool) ==
    LET last == CHOOSE i \in DOMAIN hyperfine_data.commands :
                    /\ hyperfine_data.commands[i] = tool
                    /\ \A j \in DOMAIN hyperfine_data.commands :
                          hyperfine_data.commands[j] = tool => j <= i
    IN  hyperfine_data.mean_times[last]

\* lines 394-395: max(valid_times) and min(valid_times)
max_of(valid_times) == CHOOSE t \in valid_times : \A x \in valid_times : RLe(x, t)
min_of(valid_times) == CHOOSE t \in valid_times : \A x \in valid_times : RLe(t, x)

\* lines 392-398: the speed scores, or <<>> when line 396 divides by zero
normalise_speed(install_times) ==
    LET valid_times == {install_times[i] : i \in {j \in DOMAIN install_times :
                                                    IsNum(install_times[j])}}
    IN  IF valid_times = {} THEN [i \in DOMAIN install_times |-> R(0)]
        ELSE Only({IF max_time = min_time THEN <<>>
                   ELSE [i \in DOMAIN install_times |->
                           IF IsNum(install_times[i])
                           THEN speed_score(install_times[i], min_time, max_time)
                           ELSE R(0)]
                   : max_time \in {max_of(valid_times)},
                     min_time \in {min_of(valid_times)}})

\* line 337: tools = sorted(all_tools)
chart_tools(installation_data, reproducibility_data, dx_data) ==
    sorted_names(Range(installation_data.tools)
                 \cup Range(reproducibility_data.tools)
                 \cup Range(dx_data.tools))

\* lines 341-350: the hyperfine mean when there is one, else the installation
\* time, else None
chart_install_times(tools, installation_data, hyperfine_data) ==
    [i \in DOMAIN tools |->
        IF hyperfine_data # NoneRec /\ tools[i] \in Range(hyperfine_data.commands)
        THEN hyperfine_time(hyperfine_data, tools[i])
        ELSE IF tools[i] \in Range(installation_data.tools)
        THEN installation_data.times[IndexOf(installation_data.tools, tools[i])]
        ELSE NoNum]

\* lines 352-358: 100 or 0, None for a tool without a reproducibility record
chart_repro_scores(tools, reproducibility_data) ==
    [i \in DOMAIN tools |->
        IF tools[i] \in Range(reproducibility_data.tools)
        THEN R(reproducibility_data.reproducible[
                    IndexOf(reproducibility_data.tools, tools[i])] * 100)
        ELSE NoNum]

\* lines 360-366: the success rate, None for a tool without one
chart_dx_scores(tools, dx_data) ==
    [i \in DOMAIN tools |->
        IF tools[i] \in Range(dx_data.tools)
        THEN dx_data.success_rates[IndexOf(dx_data.tools, tools[i])]
        ELSE NoNum]

\* lines 390-434: the scores of the tools, or the exception of line 396
chart_scores(tools, install_times, repro_scores, dx_scores, speed_scores) ==
    IF tools # <<>> /\ speed_scores = <<>>
    THEN [status |-> "ZeroDivisionError"]
    ELSE [status |-> "ok",
          tools |-> tools,
          install_times |-> install_times,
          unified_scores |-> [i \in DOMAIN tools |->
                unified_score(speed_scores[i], repro_scores[i], dx_scores[i])],
          speed_scores |-> speed_scores,
          repro_scores |-> repro_scores,
          dx_scores |-> dx_scores]

\* lines 310-434.  status "None": the function returns None; status
\* "ZeroDivisionError": line 396 divides by max_time - min_time = 0.
generate_unified_score_chart(installation_data, hyperfine_data, reproducibility_data, dx_data) ==
    IF installation_data = NoneRec \/ reproducibility_data = NoneRec \/ dx_data = NoneRec
    THEN [status |-> "None"]
    ELSE Only(UNION {UNION {
            {chart_scores(tools, install_times, repro_scores, dx_scores, speed_scores)
                : speed_scores \in {normalise_speed(install_times)}}
            : install_times \in {chart_install_times(tools, installation_data,
                                                     hyperfine_data)},
              repro_scores \in {chart_repro_scores(tools, reproducibility_data)},
              dx_scores \in {chart_dx_scores(tools, dx_data)}}
            : tools \in {chart_tools(installation_data, reproducibility_data, dx_data)}})

(***************************************************************************)
(* generate_report.py: the files                                           *)
(***************************************************************************)

\* the metrics of a report
Metrics == {"installation", "reproducibility", "dx", "hyperfine"}

\* the prefixes generate_markdown_report loads (lines 466-469)
LoadPrefixes ==
    {"installation_benchmark_results", "reproducibility_results",
     "dx_evaluation_results", "hyperfine-results"}

\* str comparison of two sequences of character codes
RECURSIVE LexLess(_, _)
LexLess(a, b) ==
    IF a = <<>> THEN b # <<>>
    ELSE IF b = <<>> THEN FALSE
    ELSE IF a[1] < b[1] THEN TRUE
    ELSE IF a[1] > b[1] THEN FALSE
    ELSE LexLess(Tail(a), Tail(b))

\* The paths of one glob differ in "<suffix>.json" only; suffix characters are
\* digits (codes 0..9) and "." sorts before every digit (code -1).
PathLess(f, g) == LexLess(f.suffix \o <<-1>>, g.suffix \o <<-1>>)

\* sorted(paths) and sorted(paths, reverse=True)
RECURSIVE sorted_paths(_, _)
sorted_paths(S, reverse) ==
    IF S = {} THEN <<>>
    ELSE LET first == CHOOSE f \in S : \A g \in S :
                          g = f \/ (IF reverse THEN PathLess(g, f) ELSE PathLess(f, g))
         IN  <<first>> \o sorted_paths(S \ {first}, reverse)

\* glob.glob(str(RAW_DIR / f"{prefix}_*.json")) over a directory listing
glob_raw(dir, prefix) == {f \in dir : f.prefix = prefix}

\* line 33 without reverse=True: a plausible slip (the oldest file is taken)
first_of_ascending(dir, prefix) == sorted_paths(glob_raw(dir, prefix), FALSE)

\* line 33: sorted(glob.glob(...), reverse=True)
latest_files(dir, prefix) == sorted_paths(glob_raw(dir, prefix), TRUE)

\* lines 31-40: the loaded content and the name of the file it came from
load_latest_json(dir, cwd, prefix) ==
    LET files == latest_files(dir, prefix)
    IN  IF files = <<>>
        THEN IF cwd[prefix] # NoneRec
             THEN [content |-> cwd[prefix], name |-> [legacy |-> prefix]]
             ELSE [content |-> NoneRec, name |-> NoneRec]
        ELSE [content |-> files[1].content,
              name |-> [prefix |-> files[1].prefix, suffix |-> files[1].suffix]]

\* open(path, "w") in the raw directory: the file is created or replaced
write_raw(dir, prefix, suffix, content) ==
    {f \in dir : ~(f.prefix = prefix /\ f.suffix = suffix)}
    \cup {[prefix |-> prefix, suffix |-> suffix, content |-> content]}

\* datetime.now().strftime('%Y%m%d_%H%M%S'): fixed-width digits
Stamp(t) == <<t \div 10, t % 10>>

(***************************************************************************)
(* generate_report.py: generate_markdown_report and main                   *)
(***************************************************************************)

\* report_dir.mkdir(exist_ok=True): an existing directory keeps its content
mkdir_report(dirs, stamp) ==
    IF \E r \in dirs : r.stamp = stamp THEN dirs
    ELSE dirs \cup {[stamp |-> stamp, md |-> NoneRec]}

\* open(report_dir / "report.md", "w")
write_report(dirs, stamp, md) ==
    {r \in dirs : r.stamp # stamp} \cup {[stamp |-> stamp, md |-> md]}

\* lines 471-494: the copies of the loaded results, named with the timestamp
save_copies(dir, timestamp, inst, rep, dx, hyp) ==
    LET d1 == IF inst = NoneRec THEN dir
              ELSE write_raw(dir, "installation_benchmark_results", timestamp, inst)
        d2 == IF rep = NoneRec THEN d1
              ELSE write_raw(d1, "reproducibility_results", timestamp, rep)
        d3 == IF dx = NoneRec THEN d2
              ELSE write_raw(d2, "dx_evaluation_results", timestamp, dx)
    IN  IF hyp = NoneRec THEN d3
        ELSE write_raw(d3, "hyperfine_results", timestamp, hyp)

\* lines 863-865 opening the file only when it does not exist yet: a plausible
\* slip (the first report stays the latest one)
write_latest_once(old, md) == IF old = NoneRec THEN md ELSE old

\* lines 863-865: open(latest_report_path, "w") and write, replacing the file
write_latest(old, md) == md

\* line 768 without [::-1]: a plausible slip (the table comes out ascending)
unified_table_order_ascending(perm) == perm

\* line 768: np.argsort(unified_scores)[::-1], `perm` being the argsort
unified_table_order(perm) == Reversed(perm)

\* lines 566-575: the installation table
installation_section(installation_data) ==
    IF installation_data = NoneRec THEN NoneRec
    ELSE [rows |-> [i \in DOMAIN installation_data.tools |->
                      [tool |-> installation_data.tools[i],
                       time |-> Fmt(installation_data.times[i], 100)]],
          fastest |-> installation_data.tools[1],
          slowest |-> installation_data.tools[Len(installation_data.tools)]]

\* lines 587-605: the hyperfine table
hyperfine_section(hyperfine_data) ==
    IF hyperfine_data = NoneRec THEN NoneRec
    ELSE [rows |-> [i \in DOMAIN hyperfine_data.commands |->
                      [tool |-> hyperfine_data.commands[i],
                       mean |-> Fmt(hyperfine_data.mean_times[i], 100)]]]

\* lines 623-636: the reproducibility table
reproducibility_section(reproducibility_data) ==
    IF reproducibility_data = NoneRec THEN NoneRec
    ELSE [rows |-> [i \in DOMAIN reproducibility_data.tools |->
                      [tool |-> reproducibility_data.tools[i],
                       reproducible |-> IF reproducibility_data.reproducible[i] = 1
                                        THEN "Yes" ELSE "No"]]]

\* lines 660-671: the DX table (for a non-empty tool list)
dx_section(dx_data) ==
    IF dx_data = NoneRec THEN NoneRec
    ELSE [rows |-> [i \in DOMAIN dx_data.tools |->
                      [tool |-> dx_data.tools[i],
                       rate |-> Fmt(dx_data.success_rates[i], 10)]],
          best |-> dx_data.tools[argmax(dx_data.success_rates)]]

\* lines 752-778: the unified-score table, `perm` being np.argsort(unified_scores)
unified_section(u, perm) ==
    IF u.status # "ok" THEN NoneRec
    ELSE LET sorted_indices == unified_table_order(perm)
         IN  [rows |-> [k \in DOMAIN sorted_indices |->
                          LET idx == sorted_indices[k]
                          IN  [tool |-> u.tools[idx],
                               unified |-> Fmt(u.unified_scores[idx], 10),
                               speed |-> Fmt(u.speed_scores[idx], 10),
                               repro |-> Fmt(u.repro_scores[idx], 10),
                               dx |-> Fmt(u.dx_scores[idx], 10)]],
              best_overall |-> u.tools[argmax(u.unified_scores)]]

\* `for tool in set(names)`: the elements in the order of the set's hash
\* table.  The hash of a str is salted anew in every Python process (hash
\* randomisation is on by default), so any order of the elements can come out.
set_iteration(names) == Orderings(names)

\* line 806: the rank of tool i by success rate, from a stable descending sort
dx_rank(rates, i) ==
    1 + Cardinality({j \in DOMAIN rates : RLt(rates[i], rates[j])})
      + Cardinality({j \in DOMAIN rates : j < i /\ rates[j] = rates[i]})

\* lines 780-812: the per-tool summary sections, `order` being the iteration
\* order of set(tools_speed + tools_repro + tools_dx)
tool_summary(installation_data, reproducibility_data, dx_data, order) ==
    [k \in DOMAIN order |->
        LET tool == order[k]
        IN  [tool |-> tool,
             speed |-> IF tool \in Range(installation_data.tools)
                       THEN LET i == IndexOf(installation_data.tools, tool)
                            IN  [rank |-> i, of |-> Len(installation_data.tools),
                                 time |-> Fmt(installation_data.times[i], 100)]
                       ELSE NoneRec,
             reproducible |->
                 IF tool \in Range(reproducibility_data.tools)
                 THEN IF reproducibility_data.reproducible[
                             IndexOf(reproducibility_data.tools, tool)] = 1
                      THEN "Yes" ELSE "No"
                 ELSE None,
             dx |-> IF tool \in Range(dx_data.tools)
                    THEN LET i == IndexOf(dx_data.tools, tool)
                         IN  [rank |-> dx_rank(dx_data.success_rates, i),
                              of |-> Len(dx_data.tools),
                              rate |-> Fmt(dx_data.success_rates[i], 10)]
                    ELSE NoneRec]]

Count(flags) == Cardinality({i \in DOMAIN flags : flags[i]})

\* lines 456-869.  The run ends with an exception, leaving the raw copies and
\* the report directory behind, or writes report.md and latest_report.md.
generate_markdown_report(args) ==
    \E timestamp \in {Stamp(clock)},
       inst \in {load_latest_json(raw, legacy, "installation_benchmark_results")},
       rep \in {load_latest_json(raw, legacy, "reproducibility_results")},
       dx \in {load_latest_json(raw, legacy, "dx_evaluation_results")},
       hyp \in {load_latest_json(raw, legacy, "hyperfine-results")} :
    \E p_inst \in argsort(IF inst.content = NoneRec THEN <<>>
                          ELSE [i \in DOMAIN inst.content.results |->
                                   inst.content.results[i].execution_time]),
       p_hyp \in argsort(IF hyp.content = NoneRec THEN <<>>
                         ELSE [i \in DOMAIN hyp.content.results |->
                                  hyp.content.results[i].mean]) :
    \E installation_data \in
            {IF inst.content = NoneRec THEN NoneRec
             ELSE generate_installation_speed_chart(inst.content, p_inst)},
       reproducibility_data \in
            {IF rep.content = NoneRec THEN NoneRec
             ELSE generate_reproducibility_chart(rep.content)},
       dx_data \in
            {IF dx.content = NoneRec THEN NoneRec ELSE generate_dx_chart(dx.content)},
       hyperfine_data \in
            {IF hyp.content = NoneRec THEN NoneRec
             ELSE generate_hyperfine_chart(hyp.content, p_hyp)} :
    \E unified_score_data \in
            {IF Count(<<installation_data # NoneRec, reproducibility_data # NoneRec,
                        dx_data # NoneRec>>) >= 2
             THEN generate_unified_score_chart(installation_data, hyperfine_data,
                                               reproducibility_data, dx_data)
             ELSE [status |-> "None"]} :
    \* line 396 (ZeroDivisionError), line 667 (np.argmax of an empty list:
    \* ValueError), line 772 (format of None with ".1f": TypeError)
    \E raised \in
            {IF unified_score_data.status = "ZeroDivisionError" THEN "ZeroDivisionError"
             ELSE IF dx_data # NoneRec /\ dx_data.tools = <<>> THEN "ValueError"
             ELSE IF unified_score_data.status = "ok"
                     /\ \E i \in DOMAIN unified_score_data.tools :
                           \/ ~IsNum(unified_score_data.repro_scores[i])
                           \/ ~IsNum(unified_score_data.dx_scores[i])
             THEN "TypeError"
             ELSE "none"} :
    \E p_uni \in argsort(IF unified_score_data.status = "ok" /\ raised = "none"
                         THEN unified_score_data.unified_scores ELSE <<>>) :
    \E order \in set_iteration(
                      IF raised = "none" /\ installation_data # NoneRec
                         /\ reproducibility_data # NoneRec /\ dx_data # NoneRec
                      THEN Range(installation_data.tools)
                           \cup Range(reproducibility_data.tools)
                           \cup Range(dx_data.tools)
                      ELSE {}) :
    LET report_md ==
            [generated_on |-> timestamp,
             data_sources |-> [installation |-> inst.name, reproducibility |-> rep.name,
                               dx |-> dx.name, hyperfine |-> hyp.name],
             installation |-> installation_section(installation_data),
             hyperfine |-> hyperfine_section(hyperfine_data),
             reproducibility |-> reproducibility_section(reproducibility_data),
             dx |-> dx_section(dx_data),
             unified |-> unified_section(unified_score_data, p_uni),
             tool_summary |-> tool_summary(installation_data, reproducibility_data,
                                           dx_data, order)]
    IN  /\ clock' = clock + 1
        /\ raw' = save_copies(raw, timestamp, inst.content, rep.content,
                              dx.content, hyp.content)
        /\ gen' = [timestamp |-> timestamp,
                   install_file |-> inst.name, repro_file |-> rep.name,
                   dx_file |-> dx.name, hyperfine_file |-> hyp.name,
                   installation_results |-> inst.content,
                   reproducibility_results |-> rep.content,
                   dx_results |-> dx.content,
                   hyperfine_results |-> hyp.content,
                   dx_data |-> dx_data,
                   unified_score_data |-> unified_score_data]
        /\ error' = raised
        /\ reports' = IF raised = "none"
                      THEN write_report(mkdir_report(reports, timestamp),
                                        timestamp, report_md)
                      ELSE mkdir_report(reports, timestamp)
        /\ latest_report' = IF raised = "none"
                            THEN write_latest(latest_report, report_md)
                            ELSE latest_report
        /\ UNCHANGED <<legacy, load_result>>

\* line 882: the number of report directories --clean keeps
KeepReports == 5

\* the command lines of the report generator
Args == [timestamp : {<<>>, <<0, 0>>}, json_only : BOOLEAN, clean : BOOLEAN]

\* lines 872-891.  shutil is never imported by generate_report.py, so the first
\* shutil.rmtree of line 884 raises NameError and the process ends there.
main(args) ==
    /\ invocation' = [args |-> args, reports |-> reports, clock |-> clock]
    /\ UNCHANGED last_run
    /\ IF args.clean /\ Cardinality(reports) > KeepReports
       THEN /\ error' = "NameError"
            /\ clock' = clock + 1
            /\ UNCHANGED <<raw, legacy, reports, latest_report, gen, load_result>>
       ELSE IF ~args.json_only
       THEN generate_markdown_report(args)
       ELSE /\ error' = "none"
            /\ clock' = clock + 1
            /\ UNCHANGED <<raw, legacy, reports, latest_report, gen, load_result>>

(***************************************************************************)
(* The inputs of the scorer                                                *)
(***************************************************************************)

\* three of TOOLS (test_reproducibility.py line 16), in the order of that list
ScoredTools == <<"poetry", "piptools", "uv">>

\* installation and hyperfine times are 1..MaxTime seconds
MaxTime == 3

\* the number of scenarios a DX record holds when the setup succeeded
NumScenarios == 2

\* the non-empty sub-lists of ScoredTools, in its order
ToolLists ==
    {SelectIdx(ScoredTools, S) : S \in (SUBSET DOMAIN ScoredTools) \ {{}}}

\* installation_benchmark_results: {"results": {tool: {"execution_time": t}}}
InstallContents(lists, times) ==
    UNION {{[results |-> [i \in DOMAIN ts |->
                            [tool |-> ts[i], execution_time |-> R(v[i])]]]
            : v \in [DOMAIN ts -> times]} : ts \in lists}

\* reproducibility_results: {tool: {"reproducible": b}}
ReproContents(lists) ==
    UNION {{[tools |-> [i \in DOMAIN ts |-> [tool |-> ts[i], reproducible |-> v[i]]]]
            : v \in [DOMAIN ts -> BOOLEAN]} : ts \in lists}

\* the scenario list of one DX record: empty after a failed setup, else one
\* record per scenario, k of them successful
ScenarioLists(n) ==
    {<<>>} \cup {[i \in 1..n |-> [success |-> i <= k]] : k \in 0..n}

\* dx_evaluation_results: {tool: {"scenarios": [...]}}
DxContents(lists, n) ==
    UNION {{[tools |-> [i \in DOMAIN ts |-> [tool |-> ts[i], scenarios |-> v[i]]]]
            : v \in [DOMAIN ts -> ScenarioLists(n)]} : ts \in lists}

\* the last "&&" segment of a hyperfine command, split at "/"
HyperCommands == {<<"uv">>, <<".", "scripts", "install_uv.sh">>}

\* hyperfine-results: {"results": [{"command": c, "mean": t}]}
HyperContents(times) ==
    {[results |-> <<[command |-> c, mean |-> R(t)]>>] : c \in HyperCommands, t \in times}

\* a raw directory holding one timestamped file for each metric that has data
RawOf(inst, rep, dx, hyp) ==
    {[prefix |-> "installation_benchmark_results", suffix |-> Stamp(0), content |-> inst],
     [prefix |-> "reproducibility_results", suffix |-> Stamp(0), content |-> rep],
     [prefix |-> "dx_evaluation_results", suffix |-> Stamp(0), content |-> dx],
     [prefix |-> "hyperfine-results", suffix |-> Stamp(0), content |-> hyp]}
    \ {[prefix |-> q, suffix |-> Stamp(0), content |-> NoneRec] : q \in LoadPrefixes}

\* neither the DX evaluation nor the installation benchmark loop is running
ToolsIdle == dx_eval = NoneRec /\ install_run = NoneRec

\* default of the `iterations` parameter of test_tool_reproducibility
DefaultIterations == 3

\* test_tool_reproducibility is not running
ReproIdle ==
    /\ rp_pc = "done"
    /\ rp_script = FALSE
    /\ hashes = <<>>
    /\ results = <<>>
    /\ rp_record = None
    /\ rp_iterations = DefaultIterations
    /\ rp_pass = NoneRec

\* the artifacts of one benchmarking run are on disk, no report was made yet
InitArtifacts(insts, reps, dxs, hyps) ==
    /\ ReproIdle
    /\ ToolsIdle
    /\ clock = 1
    /\ \E inst \in insts, rep \in reps, dx \in dxs, hyp \in hyps :
          raw = RawOf(inst, rep, dx, hyp)
    /\ legacy = [p \in LoadPrefixes |-> NoneRec]
    /\ reports = {}
    /\ latest_report = NoneRec
    /\ error = "none"
    /\ gen = NoneRec
    /\ load_result = NoneRec
    /\ invocation = NoneRec
    /\ last_run = [m \in Metrics |-> NoneRec]

\* the report generator is run once, without flags
FirstReport ==
    /\ gen = NoneRec
    /\ main([timestamp |-> <<>>, json_only |-> FALSE, clean |-> FALSE])
    /\ UNCHANGED <<repro_vars, tool_vars>>

\* every tool reproducible, every DX scenario of every tool successful
AllReproducible ==
    [tools |-> [i \in DOMAIN ScoredTools |->
                  [tool |-> ScoredTools[i], reproducible |-> TRUE]]]
AllSuccessful ==
    [tools |-> [i \in DOMAIN ScoredTools |->
                  [tool |-> ScoredTools[i],
                   scenarios |-> [k \in 1..NumScenarios |-> [success |-> TRUE]]]]]

\* speed normalisation: any tools timed, hyperfine or not, the rest complete
InitSpeed ==
    InitArtifacts(InstallContents(ToolLists, 1..MaxTime),
                  {AllReproducible}, {AllSuccessful},
                  {NoneRec} \cup HyperContents(1..MaxTime))

SpecSpeed == InitSpeed /\ [][FirstReport]_vars

\* the installation times of the scoring runs, in seconds
ScoreTimes == {1, 2}

\* scoring: any subset of the metrics present, tools missing from a metric
InitScore ==
    InitArtifacts({NoneRec} \cup InstallContents({ScoredTools}, ScoreTimes),
                  {NoneRec} \cup ReproContents({ScoredTools, <<"poetry", "uv">>}),
                  {NoneRec} \cup DxContents({ScoredTools}, NumScenarios),
                  {NoneRec, [results |-> <<[command |-> <<"uv">>, mean |-> R(1)]>>]})

SpecScore == InitScore /\ [][FirstReport]_vars

(***************************************************************************)
(* The scorer's claims                                                     *)
(***************************************************************************)

\* the unified score data of the last report generation, when it was computed
Scored == gen # NoneRec /\ gen.unified_score_data.status = "ok"
u == gen.unified_score_data
Timed == {i \in DOMAIN u.tools : IsNum(u.install_times[i])}
MaxT == CHOOSE t \in {u.install_times[i][1] : i \in Timed} :
            \A i \in Timed : u.install_times[i][1] <= t
MinT == CHOOSE t \in {u.install_times[i][1] : i \in Timed} :
            \A i \in Timed : t <= u.install_times[i][1]

\* C2: with max_t > min_t, a tool with known time t scores
\* 100 * (1 - (t - min_t) / (max_t - min_t)) for speed, so the fastest scores
\* 100 and the slowest 0; a tool without a time scores 0.
C2_SpeedNormalised ==
    Scored =>
        \A i \in DOMAIN u.tools :
            IF i \in Timed
            THEN /\ MaxT > MinT
                 /\ u.speed_scores[i][1] * (MaxT - MinT)
                        = 100 * (MaxT - u.install_times[i][1]) * u.speed_scores[i][2]
                 /\ (u.install_times[i][1] = MinT => u.speed_scores[i] = R(100))
                 /\ (u.install_times[i][1] = MaxT => u.speed_scores[i] = R(0))
            ELSE u.speed_scores[i] = R(0)

\* a fastest tool, a slowest tool and a tool without a time, scored 100, 0 and 0
C2_Witness ==
    /\ Scored
    /\ \E i, j, k \in DOMAIN u.tools :
          /\ i \in Timed /\ j \in Timed /\ k \notin Timed
          /\ u.install_times[i][1] < u.install_times[j][1]
          /\ u.speed_scores[i] = R(100)
          /\ u.speed_scores[j] = R(0)
          /\ u.speed_scores[k] = R(0)

\* the time the scorer uses for a tool of the loaded results: the hyperfine
\* mean when a hyperfine command names the tool, else the installation time
KnownTimes ==
    LET hyper == IF gen.hyperfine_results = NoneRec THEN <<>>
                 ELSE gen.hyperfine_results.results
        inst  == IF gen.installation_results = NoneRec THEN <<>>
                 ELSE gen.installation_results.results
        named == {hyperfine_tool(hyper[i].command) : i \in DOMAIN hyper}
                 \cap Range(ScoredTools)
    IN  {hyper[i].mean : i \in {j \in DOMAIN hyper : hyperfine_tool(hyper[j].command) \in named}}
        \cup {inst[i].execution_time : i \in {j \in DOMAIN inst : inst[j].tool \notin named}}

\* C3: when all known installation times are equal, the normalisation does not
\* divide by zero and every timed tool gets the speed score 100.
C3_EqualTimesScore100 ==
    (gen # NoneRec /\ gen.unified_score_data.status # "None"
     /\ Cardinality(KnownTimes) = 1)
        => /\ error # "ZeroDivisionError"
           /\ Scored
           /\ \A i \in Timed : u.speed_scores[i] = R(100)

\* C4: unified = 0.4 * speed + 0.4 * reproducibility + 0.2 * dx, a component
\* without data counting as 0 and the weights staying as they are.
C4_UnifiedWeightedSum ==
    Scored =>
        \A i \in DOMAIN u.tools :
            LET repro == IF IsNum(u.repro_scores[i]) THEN u.repro_scores[i] ELSE R(0)
                dx    == IF IsNum(u.dx_scores[i]) THEN u.dx_scores[i] ELSE R(0)
            IN  /\ RMul(R(10), u.unified_scores[i])
                     = RAdd(RAdd(RMul(R(4), u.speed_scores[i]), RMul(R(4), repro)),
                            RMul(R(2), dx))
                /\ (u.speed_scores[i] = R(100) /\ repro = R(100) /\ dx = R(50)
                        => u.unified_scores[i] = R(90))

\* a tool without DX data, with speed 100 and reproducibility 100, scores 80;
\* another one with speed 100, reproducibility 100 and DX 50 scores 90
C4_Witness ==
    /\ Scored
    /\ \E i \in DOMAIN u.tools :
          /\ ~IsNum(u.dx_scores[i])
          /\ u.speed_scores[i] = R(100) /\ u.repro_scores[i] = R(100)
          /\ u.unified_scores[i] = R(80)
    /\ \E i \in DOMAIN u.tools :
          /\ u.speed_scores[i] = R(100) /\ u.repro_scores[i] = R(100)
          /\ u.dx_scores[i] = R(50)
          /\ u.unified_scores[i] = R(90)

InRange(x) == RLe(R(0), x) /\ RLe(x, R(100))

\* C5: every computed speed, reproducibility, DX and unified score is in 0..100.
C5_ScoresInRange ==
    Scored =>
        \A i \in DOMAIN u.tools :
            /\ InRange(u.speed_scores[i])
            /\ InRange(u.unified_scores[i])
            /\ (IsNum(u.repro_scores[i]) => InRange(u.repro_scores[i]))
            /\ (IsNum(u.dx_scores[i]) => InRange(u.dx_scores[i]))

\* both ends of the range are taken: a tool scores 100 overall, another one 0
C5_Witness ==
    /\ Scored
    /\ \E i, j \in DOMAIN u.tools :
          /\ u.unified_scores[i] = R(100)
          /\ u.unified_scores[j] = R(0)
          /\ IsNum(u.dx_scores[j]) /\ IsNum(u.repro_scores[j])

\* the report of the last generation has a unified-score table
HasUnifiedTable ==
    /\ Scored
    /\ error = "none"
    /\ latest_report # NoneRec
    /\ latest_report.unified # NoneRec
rows == latest_report.unified.rows
ScoreOf(tool) == u.unified_scores[IndexOf(u.tools, tool)]

\* C6 as amended: the unified-score table has one row for each tool and the
\* unified scores never increase from a row to the next.
C6_TableDescending ==
    HasUnifiedTable =>
        /\ Len(rows) = Len(u.tools)
        /\ {rows[k].tool : k \in DOMAIN rows} = Range(u.tools)
        /\ \A k \in 1..(Len(rows) - 1) :
              RLe(ScoreOf(rows[k + 1].tool), ScoreOf(rows[k].tool))

\* C6 as stated: descending, and tools with equal unified scores in the order
\* they have in the tools list.
C6_TableDescendingStable ==
    HasUnifiedTable =>
        \A k \in 1..(Len(rows) - 1) :
            /\ RLe(ScoreOf(rows[k + 1].tool), ScoreOf(rows[k].tool))
            /\ (ScoreOf(rows[k + 1].tool) = ScoreOf(rows[k].tool)
                    => IndexOf(u.tools, rows[k].tool) < IndexOf(u.tools, rows[k + 1].tool))

\* a table with two tools tied above a third one
C6_Witness ==
    /\ HasUnifiedTable
    /\ Len(rows) = 3
    /\ ScoreOf(rows[1].tool) = ScoreOf(rows[2].tool)
    /\ RLt(ScoreOf(rows[3].tool), ScoreOf(rows[2].tool))

\* the metrics whose artifact the last report generation did not find
MissingMetrics ==
    {m \in Metrics :
        CASE m = "installation" -> gen.installation_results = NoneRec
          [] m = "reproducibility" -> gen.reproducibility_results = NoneRec
          [] m = "dx" -> gen.dx_results = NoneRec
          [] m = "hyperfine" -> gen.hyperfine_results = NoneRec}

SectionOf(md, m) ==
    CASE m = "installation" -> md.installation
      [] m = "reproducibility" -> md.reproducibility
      [] m = "dx" -> md.dx
      [] m = "hyperfine" -> md.hyperfine

\* C8: whatever metric artifacts are missing, the report generation completes,
\* writes the report, and the section of each missing metric has no table.
C8_MissingMetricsRender ==
    (gen # NoneRec /\ MissingMetrics # {}) =>
        /\ error = "none"
        /\ \E r \in reports : r.stamp = gen.timestamp /\ r.md # NoneRec
        /\ latest_report # NoneRec
        /\ \A m \in MissingMetrics : SectionOf(latest_report, m) = NoneRec

(***************************************************************************)
(* test_reproducibility.py                                                 *)
(***************************************************************************)

\* the two 32-hex-digit hash values the model distinguishes
HashVals == {"aaaa", "bbbb"}

\* the texts `pip freeze | sort` can print in the model ("" = nothing)
FreezeOutputs == {"", "pkgsA", "pkgsB"}

\* hashlib.md5(text).hexdigest(): injective on the model's package lists
md5(text) == IF text = "pkgsA" THEN "aaaa" ELSE IF text = "pkgsB" THEN "bbbb" ELSE "d41d"

\* A stdout is a sequence of tokens: plain text, a bare 32-hex token, or a
\* 32-hex token preceded by the label "Environment hash:".
StdoutTokens ==
    {[kind |-> "text", hex |-> None]}
    \cup {[kind |-> k, hex |-> h] : k \in {"hex", "label"}, h \in HashVals}

MaxStdoutTokens == 2

Stdouts == UNION {[1..n -> StdoutTokens] : n \in 0..MaxStdoutTokens}

\* re.search: the leftmost token of the wanted kinds, 0 when there is none
FirstMatch(out, kinds) ==
    IF \E i \in DOMAIN out : out[i].kind \in kinds
    THEN CHOOSE i \in DOMAIN out :
            /\ out[i].kind \in kinds
            /\ \A j \in DOMAIN out : out[j].kind \in kinds => i <= j
    ELSE 0

\* lines 49-61 without the search for the label: a plausible slip
extract_hash_unlabelled_first(stdout_text) ==
    LET anyhex == FirstMatch(stdout_text, {"hex", "label"})
    IN  IF anyhex # 0 THEN stdout_text[anyhex].hex ELSE None

\* lines 49-61
extract_hash_from_output(stdout_text) ==
    LET labelled == FirstMatch(stdout_text, {"label"})
        anyhex   == FirstMatch(stdout_text, {"hex", "label"})
    IN  IF labelled # 0 THEN stdout_text[labelled].hex
        ELSE IF anyhex # 0 THEN stdout_text[anyhex].hex
        ELSE None

\* A virtual environment left by the install script: which directory exists
\* ("tool" = .venv_<tool>, "standard" = .venv, "none"), whether bin/python
\* exists in it, and what `pip freeze | sort` prints (rc 0) or that it fails.
Venvs ==
    [dir : {"tool", "standard", "none"}, python : BOOLEAN,
     freeze_rc : {0, 1}, freeze_out : FreezeOutputs]

get_env_hash_from_venv(venv) ==
    IF venv.python /\ venv.freeze_rc = 0 /\ venv.freeze_out # ""
    THEN md5(venv.freeze_out)
    ELSE None

\* lines 151-164: the hash of one iteration
IterationHash(stdout_text, venv) ==
    LET env_hash == extract_hash_from_output(stdout_text)
    IN  IF env_hash # None THEN env_hash
        ELSE IF venv.dir \in {"tool", "standard"} THEN get_env_hash_from_venv(venv)
        ELSE None

\* line 168 with None dropped from the test: a plausible slip
is_reproducible_ignoring_none(hs) == Cardinality(Range(hs)) = 1

\* line 168: len(set(hashes)) == 1 and None not in hashes
is_reproducible(hs) == Cardinality(Range(hs)) = 1 /\ None \notin Range(hs)

\* run_command of test_reproducibility.py: the exit code and the streams; a
\* timeout gives returncode -1, empty stdout and the sentinel stderr
ReproRuns ==
    [returncode : {0, 1}, stdout : Stdouts, stderr : {"", "boom"}]
    \cup {[returncode |-> -1, stdout |-> <<>>,
           stderr |-> "Command timed out after 180 seconds"]}

\* the state of the report generator's side before anything ran
ReportIdle ==
    /\ clock = 1
    /\ raw = {}
    /\ legacy = [p \in LoadPrefixes |-> NoneRec]
    /\ reports = {}
    /\ latest_report = NoneRec
    /\ error = "none"
    /\ gen = NoneRec
    /\ load_result = NoneRec
    /\ invocation = NoneRec
    /\ last_run = [m \in Metrics |-> NoneRec]

InitRepro ==
    /\ ReportIdle
    /\ ToolsIdle
    /\ rp_pc = "loop"
    /\ rp_script \in BOOLEAN
    /\ hashes = <<>>
    /\ results = <<>>
    /\ rp_record = None
    /\ rp_iterations = DefaultIterations
    /\ rp_pass = NoneRec

\* one pass of the loop of lines 115-165 with the install script present
ReproIteration ==
    /\ rp_pc = "loop"
    /\ Len(results) < rp_iterations
    /\ rp_script
    /\ \E run \in ReproRuns, venv \in Venvs :
          /\ results' = Append(results, [returncode |-> run.returncode,
                                          stderr |-> run.stderr])
          /\ hashes' = Append(hashes, IterationHash(run.stdout, venv))
    /\ UNCHANGED <<rp_pc, rp_script, rp_record, rp_iterations, rp_pass>>
    /\ UNCHANGED <<report_vars, tool_vars>>

\* lines 168-183: the loop is over (every pass hit `continue` when the script
\* is missing), the verdict is computed and the record returned
ReproFinish ==
    /\ rp_pc = "loop"
    /\ Len(hashes) = Len(results)
    /\ (Len(results) = rp_iterations \/ ~rp_script)
    /\ rp_pc' = "done"
    /\ rp_record' =
          [reproducible |-> is_reproducible(hashes),
           hashes |-> hashes,
           results |-> [i \in DOMAIN results |->
                          [returncode |-> results[i].returncode,
                           error |-> IF results[i].returncode # 0
                                     THEN results[i].stderr ELSE None]]]
    /\ UNCHANGED <<rp_script, hashes, results, rp_iterations, rp_pass>>
    /\ UNCHANGED <<report_vars, tool_vars>>

test_tool_reproducibility == ReproIteration \/ ReproFinish

SpecRepro == InitRepro /\ [][test_tool_reproducibility]_vars

\* C1: the tool is reported reproducible exactly when at least one hash was
\* collected, no collected hash is absent and all collected hashes are equal.
C1_ReproducibleIff ==
    rp_pc = "done" =>
        (rp_record.reproducible <=>
            /\ Len(rp_record.hashes) > 0
            /\ \A i \in DOMAIN rp_record.hashes : rp_record.hashes[i] # None
            /\ \A i, j \in DOMAIN rp_record.hashes :
                  rp_record.hashes[i] = rp_record.hashes[j])

\* a run whose three hashes are all absent: one distinct value, not reproducible
C1_Witness ==
    /\ rp_pc = "done"
    /\ Len(rp_record.hashes) = DefaultIterations
    /\ \A i \in DOMAIN rp_record.hashes : rp_record.hashes[i] = None
    /\ ~rp_record.reproducible

(***************************************************************************)
(* load_latest_json over arbitrary directory listings                      *)
(***************************************************************************)

\* the characters after "<prefix>_" are 1..MaxSuffixLen of the digits 0 and 1
SuffixDigits == {0, 1}
MaxSuffixLen == 2
\* a raw directory holds at most MaxFiles files of one prefix
MaxFiles == 3

Suffixes == UNION {[1..n -> SuffixDigits] : n \in 1..MaxSuffixLen}

\* the files a directory may hold for one prefix; the content names the file
FilesOf(prefix) ==
    {[prefix |-> prefix, suffix |-> x, content |-> [written_as |-> x]] : x \in Suffixes}

\* the content of the flat file of the working directory
LegacyContent == [written_as |-> <<>>]

InitLoad ==
    /\ ReproIdle
    /\ ToolsIdle
    /\ clock = 1
    /\ \E mine \in SUBSET FilesOf("reproducibility_results"),
          others \in SUBSET {f \in FilesOf("dx_evaluation_results") : f.suffix = <<1>>} :
          /\ Cardinality(mine) <= MaxFiles
          /\ raw = mine \cup others
    /\ \E present \in SUBSET {"reproducibility_results", "dx_evaluation_results"} :
          legacy = [p \in LoadPrefixes |->
                      IF p \in present THEN LegacyContent ELSE NoneRec]
    /\ reports = {}
    /\ latest_report = NoneRec
    /\ error = "none"
    /\ gen = NoneRec
    /\ load_result = NoneRec
    /\ invocation = NoneRec
    /\ last_run = [m \in Metrics |-> NoneRec]

\* one call load_latest_json(prefix), its value kept
LoadLatest ==
    /\ load_result = NoneRec
    /\ \E prefix \in {"reproducibility_results", "dx_evaluation_results"} :
          load_result' = [prefix |-> prefix,
                          value |-> load_latest_json(raw, legacy, prefix)]
    /\ UNCHANGED <<clock, raw, legacy, reports, latest_report, error, gen,
                   invocation, last_run>>
    /\ UNCHANGED <<repro_vars, tool_vars>>

SpecLoad == InitLoad /\ [][LoadLatest]_vars

Matching == glob_raw(raw, load_result.prefix)

\* C7: with timestamped files present the call returns the content and name of
\* the one whose name is lexicographically greatest; with none but the legacy
\* file present it returns the legacy content and path; otherwise (None, None).
C7_LexGreatestOrLegacy ==
    load_result # NoneRec =>
        LET v == load_result.value
        IN  IF Matching # {}
            THEN \E f \in Matching :
                    /\ \A g \in Matching : g = f \/ PathLess(g, f)
                    /\ v.content = f.content
                    /\ v.name = [prefix |-> f.prefix, suffix |-> f.suffix]
            ELSE IF legacy[load_result.prefix] # NoneRec
            THEN /\ v.content = legacy[load_result.prefix]
                 /\ v.name = [legacy |-> load_result.prefix]
            ELSE v.content = NoneRec /\ v.name = NoneRec

\* "<prefix>_1.json" wins over "<prefix>_01.json" and "<prefix>_0.json" while
\* the legacy file is there too
C7_Witness ==
    /\ load_result # NoneRec
    /\ Cardinality(Matching) = 3
    /\ \E f \in Matching : f.suffix = <<0, 1>>
    /\ legacy[load_result.prefix] # NoneRec
    /\ load_result.value.name =
          [prefix |-> load_result.prefix, suffix |-> <<1>>]
    /\ load_result.value.content = [written_as |-> <<1>>]

(***************************************************************************)
(* The benchmark runs and the report generator over one working directory  *)
(***************************************************************************)

\* test_benchmark.py line 89 and test_reproducibility.py line 16
TOOLS == <<"make", "poetry", "piptools", "uv">>

\* what one benchmarking run may measure for the tools of TOOLS, in its order
TimeProfiles == {<<4, 3, 2, 1>>, <<1, 2, 3, 4>>}
VerdictProfiles == {<<TRUE, TRUE, TRUE, TRUE>>, <<FALSE, TRUE, FALSE, TRUE>>}
SuccessProfiles == {<<2, 2, 2, 2>>, <<1, 2, 0, 2>>}

InstallRun(p) ==
    [results |-> [i \in DOMAIN TOOLS |->
                    [tool |-> TOOLS[i], execution_time |-> R(p[i])]]]
ReproRun(p) ==
    [tools |-> [i \in DOMAIN TOOLS |-> [tool |-> TOOLS[i], reproducible |-> p[i]]]]
DxRun(p) ==
    [tools |-> [i \in DOMAIN TOOLS |->
                  [tool |-> TOOLS[i],
                   scenarios |-> [k \in 1..2 |-> [success |-> k <= p[i]]]]]]

\* the operations of one session are numbered 1..MaxClock
MaxClock == 4

\* test_benchmark.py lines 83-142: every tool is installed and timed, then the
\* results go to "installation_benchmark_results.json" of the working
\* directory and nowhere else; a critical error ends the run before the save
test_installation_speed ==
    /\ clock <= MaxClock
    /\ clock' = clock + 1
    /\ \/ \E p \in TimeProfiles :
             /\ legacy' = [legacy EXCEPT
                              !["installation_benchmark_results"] = InstallRun(p)]
             /\ last_run' = [last_run EXCEPT !["installation"] = InstallRun(p)]
       \/ UNCHANGED <<legacy, last_run>>
    /\ UNCHANGED <<raw, reports, latest_report, error, gen, load_result, invocation>>
    /\ UNCHANGED <<repro_vars, tool_vars>>

\* test_reproducibility.py lines 186-201: the records of all tools go to a
\* timestamped file of the raw directory and to the legacy file
reproducibility_main ==
    /\ clock <= MaxClock
    /\ clock' = clock + 1
    /\ \E p \in VerdictProfiles :
          /\ raw' = write_raw(raw, "reproducibility_results", Stamp(clock), ReproRun(p))
          /\ legacy' = [legacy EXCEPT !["reproducibility_results"] = ReproRun(p)]
          /\ last_run' = [last_run EXCEPT !["reproducibility"] = ReproRun(p)]
    /\ UNCHANGED <<reports, latest_report, error, gen, load_result, invocation>>
    /\ UNCHANGED <<repro_vars, tool_vars>>

\* the DX evaluation saves its records as a new timestamped file of the raw
\* directory
dx_main ==
    /\ clock <= MaxClock
    /\ clock' = clock + 1
    /\ \E p \in SuccessProfiles :
          /\ raw' = write_raw(raw, "dx_evaluation_results", Stamp(clock), DxRun(p))
          /\ last_run' = [last_run EXCEPT !["dx"] = DxRun(p)]
    /\ UNCHANGED <<legacy, reports, latest_report, error, gen, load_result, invocation>>
    /\ UNCHANGED <<repro_vars, tool_vars>>

\* the command lines of a session: no option, or one of the three
CommandLines ==
    {args \in Args :
        Count(<<args.timestamp # <<>>, args.json_only, args.clean>>) <= 1}

\* python generate_report.py [--timestamp T] [--json-only] [--clean]
report_main ==
    /\ clock <= MaxClock
    /\ \E args \in CommandLines : main(args)
    /\ UNCHANGED <<repro_vars, tool_vars>>

Init == ReproIdle /\ ReportIdle /\ ToolsIdle

Next == test_installation_speed \/ reproducibility_main \/ dx_main \/ report_main

Spec == Init /\ [][Next]_vars

\* the last operation was a report generation
JustGenerated == gen # NoneRec /\ gen.timestamp = Stamp(clock - 1)

\* C9: a report generation loads, for each metric, the results of the most
\* recent benchmark run of that metric.
C9_ReadsMostRecentRun ==
    JustGenerated =>
        /\ last_run["installation"] # NoneRec =>
              gen.installation_results = last_run["installation"]
        /\ last_run["reproducibility"] # NoneRec =>
              gen.reproducibility_results = last_run["reproducibility"]
        /\ last_run["dx"] # NoneRec => gen.dx_results = last_run["dx"]

(***************************************************************************)
(* --clean over a results directory that already holds reports             *)
(***************************************************************************)

\* a results directory holds 0..MaxOldReports report directories beforehand
MaxOldReports == 7

\* a report directory of an earlier session
OldReport(t) == [stamp |-> Stamp(t), md |-> [generated_on |-> Stamp(t)]]

InitClean ==
    /\ ReproIdle
    /\ ToolsIdle
    /\ \E n \in 0..MaxOldReports :
          /\ reports = {OldReport(t) : t \in 1..n}
          /\ clock = n + 1
    /\ \E inst \in {NoneRec} \cup {InstallRun(p) : p \in TimeProfiles},
          rep \in {NoneRec} \cup {ReproRun(p) : p \in VerdictProfiles},
          dx \in {NoneRec} \cup {DxRun(p) : p \in SuccessProfiles} :
          raw = RawOf(inst, rep, dx, NoneRec)
    /\ legacy = [p \in LoadPrefixes |-> NoneRec]
    /\ latest_report = NoneRec
    /\ error = "none"
    /\ gen = NoneRec
    /\ load_result = NoneRec
    /\ invocation = NoneRec
    /\ last_run = [m \in Metrics |-> NoneRec]

\* the report generator is run once, with any flags
RunOnce ==
    /\ invocation = NoneRec
    /\ \E args \in Args : main(args)
    /\ UNCHANGED <<repro_vars, tool_vars>>

SpecClean == InitClean /\ [][RunOnce]_vars

\* reports[-k:] of sorted(glob("report_*")): the k directories named last
LatestReports(dirs, k) ==
    {r \in dirs : Cardinality({q \in dirs : LexLess(r.stamp, q.stamp)}) < k}

\* C10: with --clean the cleanup finishes without error and, of the report
\* directories that existed beforehand, exactly the five most recent remain;
\* without --clean every report directory that existed beforehand remains.
C10_CleanKeepsLatestFive ==
    invocation # NoneRec =>
        LET before == {r.stamp : r \in invocation.reports}
            kept == {r.stamp : r \in reports} \cap before
        IN  IF invocation.args.clean
            THEN /\ error # "NameError"
                 /\ kept = {r.stamp : r \in LatestReports(invocation.reports, KeepReports)}
            ELSE kept = before

(***************************************************************************)
(* The command line of the report generator                                *)
(***************************************************************************)

\* the last operation was a run of the report generator
JustRan == invocation # NoneRec /\ invocation.clock = clock - 1

\* the name the copy of a loaded result gets (lines 473, 479, 485, 491)
CopyPrefix(prefix) ==
    IF prefix = "hyperfine-results" THEN "hyperfine_results" ELSE prefix

\* C11: a run with --json-only leaves a copy, named with the run's timestamp,
\* of every metric result there is to load, and renders no report.
C11_JsonOnlySavesCopies ==
    (JustRan /\ invocation.args.json_only) =>
        /\ \A prefix \in LoadPrefixes :
              load_latest_json(raw, legacy, prefix).content # NoneRec =>
                  \E f \in raw : /\ f.prefix = CopyPrefix(prefix)
                                 /\ f.suffix = Stamp(invocation.clock)
        /\ reports = invocation.reports

\* C12: a run with --timestamp T that renders a report names the report
\* directory and the raw copies with T.
C12_TimestampReused ==
    (JustRan /\ JustGenerated /\ invocation.args.timestamp # <<>>) =>
        /\ gen.timestamp = invocation.args.timestamp
        /\ \E r \in reports : r.stamp = invocation.args.timestamp
        /\ \A f \in raw : f.suffix # Stamp(invocation.clock)

\* the report directories that hold a report.md
Rendered == {r \in reports : r.md # NoneRec}

\* C13: latest_report.md exists exactly when some report.md does and has the
\* content of the report.md of the most recent directory holding one; right
\* after a completed generation that is the report.md of that run.
C13_LatestIsLastReport ==
    /\ (latest_report = NoneRec) <=> (Rendered = {})
    /\ \A r \in LatestReports(Rendered, 1) : latest_report = r.md
    /\ (JustGenerated /\ error = "none") =>
          \E r \in reports : r.stamp = gen.timestamp /\ r.md = latest_report

\* two completed generations with different reports, the second one the latest
C13_Witness ==
    /\ JustGenerated /\ error = "none"
    /\ \E r \in Rendered : r.stamp # gen.timestamp /\ r.md # latest_report
    /\ \E r \in Rendered : r.stamp = gen.timestamp /\ r.md = latest_report
    /\ latest_report.installation # NoneRec

(***************************************************************************)
(* The report generator run again on the artifacts of one session          *)
(***************************************************************************)

\* the report generator is run up to MaxRuns times
MaxRuns == 2

\* the artifacts of one benchmark session: two tools timed, all reproducible,
\* with or without the results of a DX evaluation
InitRerun ==
    InitArtifacts(InstallContents({<<"poetry", "uv">>}, ScoreTimes), {AllReproducible},
                  {NoneRec, AllSuccessful}, {NoneRec})

\* python generate_report.py, with no benchmark run before the next one
Rerun ==
    /\ clock <= MaxRuns
    /\ \E args \in {a \in CommandLines : a.timestamp = <<>> /\ ~a.clean} : main(args)
    /\ UNCHANGED <<repro_vars, tool_vars>>

SpecRerun == InitRerun /\ [][Rerun]_vars

\* a report without the line of its generation time
Body(md) ==
    [data_sources |-> md.data_sources, installation |-> md.installation,
     hyperfine |-> md.hyperfine, reproducibility |-> md.reproducibility,
     dx |-> md.dx, unified |-> md.unified, tool_summary |-> md.tool_summary]

\* C20: the reports of two generations that follow one another on the same
\* benchmark results are the same apart from the generation time: the same
\* data sources, tables and per-tool summary sections in the same order.
C20_RerunIdentical ==
    \A r1, r2 \in Rendered :
        (r1.stamp = Stamp(clock - 2) /\ r2.stamp = Stamp(clock - 1)) =>
            Body(r1.md) = Body(r2.md)

(***************************************************************************)
(* evaluate_dx.py                                                          *)
(***************************************************************************)

\* A text is a sequence of character codes; "." is 46.
Text(n) == [i \in 1..n |-> 97 + (i % 2)]
Dots == <<46, 46, 46>>

\* line 181: the length from which stdout is cut
TruncateAt == 500

\* What the external process of one run_command call does: it exits with a
\* code and its streams, it outlives the timeout, or it cannot be started.
DxProcs ==
    {[kind |-> "exit", rc |-> 0, stdout |-> Text(TruncateAt), stderr |-> ""],
     [kind |-> "exit", rc |-> 0, stdout |-> Text(TruncateAt + 1), stderr |-> ""],
     [kind |-> "exit", rc |-> 1, stdout |-> Text(2), stderr |-> ""],
     [kind |-> "timeout", rc |-> 0, stdout |-> <<>>, stderr |-> ""],
     [kind |-> "oserror", rc |-> 0, stdout |-> <<>>, stderr |-> "cannot start"]}

\* lines 93-98 with success read off stderr: a plausible slip
run_command_success_by_stderr(command, proc) ==
    IF proc.kind = "exit"
    THEN [command |-> command, returncode |-> proc.rc, stdout |-> proc.stdout,
          stderr |-> proc.stderr, success |-> proc.stderr = ""]
    ELSE [command |-> command, returncode |-> -1, stdout |-> <<>>,
          stderr |-> IF proc.kind = "timeout"
                     THEN "Command timed out after 120 seconds" ELSE proc.stderr,
          success |-> FALSE]

\* lines 78-114 (capture_error left at its default): the record returned
run_command(command, proc) ==
    IF proc.kind = "exit"
    THEN [command |-> command, returncode |-> proc.rc, stdout |-> proc.stdout,
          stderr |-> proc.stderr, success |-> proc.rc = 0]
    ELSE [command |-> command, returncode |-> -1, stdout |-> <<>>,
          stderr |-> IF proc.kind = "timeout"
                     THEN "Command timed out after 120 seconds" ELSE proc.stderr,
          success |-> FALSE]

\* lines 80-88 run again after a failure: a plausible slip
started_with_retry(command, proc) ==
    IF proc.kind = "exit" /\ proc.rc = 0 THEN <<command>> ELSE <<command, command>>

\* lines 80-88: the processes one run_command call starts
started(command, proc) == <<command>>

\* the scenarios of DX_SCENARIOS (lines 14-75), in the order of the list
ScenarioNames ==
    <<"add_dependency", "remove_dependency", "install_specific_version",
      "resolve_conflict", "error_messages", "upgrade_all">>

\* the commands of DX_SCENARIOS that contain "pip-compile" or "pip install"
UsesPip ==
    ({"add_dependency", "remove_dependency", "install_specific_version",
      "resolve_conflict", "error_messages", "upgrade_all"} \X {"piptools"})
    \cup ({"add_dependency", "install_specific_version", "resolve_conflict",
           "error_messages", "upgrade_all"} \X {"uv"})
    \cup {<<"upgrade_all", "make">>}

\* DX_SCENARIOS: every scenario has a command for each of the four tools; a
\* command is known by its scenario, its tool and whether it uses pip
DX_SCENARIOS ==
    [k \in DOMAIN ScenarioNames |->
        [name |-> ScenarioNames[k],
         commands |-> [t \in {"poetry", "piptools", "uv", "make"} |->
                          [scenario |-> ScenarioNames[k], tool |-> t,
                           pip |-> <<ScenarioNames[k], t>> \in UsesPip,
                           activated |-> FALSE]]]]

\* line 160 with a stand-in command for a tool the scenario does not know: a
\* plausible slip (the scenario is run and recorded for every tool)
scenario_command_or_default(scenario, tool) ==
    IF tool \in DOMAIN scenario.commands THEN scenario.commands[tool]
    ELSE [scenario |-> scenario.name, tool |-> tool, pip |-> FALSE, activated |-> FALSE]

\* line 160: scenario["commands"].get(tool)
scenario_command(scenario, tool) ==
    IF tool \in DOMAIN scenario.commands THEN scenario.commands[tool] ELSE NoneRec

\* lines 166-168: "source .venv/bin/activate && " put before the command
activate(command, tool) ==
    IF command.pip /\ tool # "poetry" THEN [command EXCEPT !.activated = TRUE]
    ELSE command

\* line 131: the command of the setup step
setup_command(tool) ==
    [scenario |-> "setup", tool |-> tool, pip |-> FALSE, activated |-> FALSE]

\* line 181 cutting from 500 characters on: a plausible slip
truncate_output_from_limit(stdout) ==
    IF Len(stdout) >= TruncateAt THEN SubSeq(stdout, 1, TruncateAt) \o Dots ELSE stdout

\* line 181: stdout[:500] + "..." if len(stdout) > 500 else stdout
truncate_output(stdout) ==
    IF Len(stdout) > TruncateAt THEN SubSeq(stdout, 1, TruncateAt) \o Dots ELSE stdout

\* lines 173-181: the record of one scenario
scenario_result(scenario, command, result) ==
    [name |-> scenario.name,
     command |-> command,
     success |-> result.success,
     returncode |-> result.returncode,
     error |-> IF ~result.success THEN result.stderr ELSE None,
     output |-> truncate_output(result.stdout)]

\* lines 147-151 going on to the scenarios after a failed setup: a plausible slip
after_setup_go_on(setup_result) == "loop"

\* lines 147-151: a failed setup ends the evaluation
after_setup(setup_result) == IF setup_result.success THEN "loop" ELSE "done"

\* the tools evaluate_tool_dx is called with: two of TOOLS and a tool that
\* DX_SCENARIOS has no command for
DxTools == {"poetry", "piptools", "conda"}

\* evaluate_tool_dx(tool) is entered (lines 136-139); scripts/install_<tool>.sh
\* may be missing
InitDx ==
    /\ ReproIdle
    /\ ReportIdle
    /\ install_run = NoneRec
    /\ \E tool \in DxTools, script \in BOOLEAN :
          dx_eval = [pc |-> "setup", tool |-> tool, script |-> script, i |-> 1,
                     scenarios |-> <<>>, setup_error |-> None, setup |-> NoneRec,
                     spawned |-> <<>>, ncalls |-> 0, last |-> NoneRec]

\* lines 145-152: prepare_environment copies the install script (shutil.copy
\* raises FileNotFoundError when it is missing, line 127) and runs it
DxSetup ==
    /\ dx_eval # NoneRec
    /\ dx_eval.pc = "setup"
    /\ IF ~dx_eval.script
       THEN dx_eval' = [dx_eval EXCEPT !.pc = "raised"]
       ELSE \E proc \in DxProcs :
            \E setup_result \in {run_command(setup_command(dx_eval.tool), proc)} :
               dx_eval' = [dx_eval EXCEPT
                   !.pc = after_setup(setup_result),
                   !.setup = setup_result,
                   !.setup_error = IF setup_result.success THEN None
                                   ELSE setup_result.stderr,
                   !.spawned = @ \o started(setup_command(dx_eval.tool), proc),
                   !.ncalls = @ + 1,
                   !.last = [proc |-> proc, result |-> setup_result]]
    /\ UNCHANGED <<repro_vars, report_vars, install_run>>

\* lines 155-184: one pass of the loop over DX_SCENARIOS
DxScenario ==
    /\ dx_eval # NoneRec
    /\ dx_eval.pc = "loop"
    /\ dx_eval.i <= Len(DX_SCENARIOS)
    /\ \E scenario \in {DX_SCENARIOS[dx_eval.i]} :
       \E found \in {scenario_command(scenario, dx_eval.tool)} :
          IF found = NoneRec
          THEN dx_eval' = [dx_eval EXCEPT !.i = @ + 1, !.last = NoneRec]
          ELSE \E command \in {activate(found, dx_eval.tool)}, proc \in DxProcs :
               \E result \in {run_command(command, proc)} :
                  dx_eval' = [dx_eval EXCEPT
                      !.i = @ + 1,
                      !.scenarios = Append(@, scenario_result(scenario, command, result)),
                      !.spawned = @ \o started(command, proc),
                      !.ncalls = @ + 1,
                      !.last = [proc |-> proc, result |-> result]]
    /\ UNCHANGED <<repro_vars, report_vars, install_run>>

\* line 186: the loop is over, the results are returned
DxReturn ==
    /\ dx_eval # NoneRec
    /\ dx_eval.pc = "loop"
    /\ dx_eval.i > Len(DX_SCENARIOS)
    /\ dx_eval' = [dx_eval EXCEPT !.pc = "done", !.last = NoneRec]
    /\ UNCHANGED <<repro_vars, report_vars, install_run>>

evaluate_tool_dx == DxSetup \/ DxScenario \/ DxReturn

SpecDx == InitDx /\ [][evaluate_tool_dx]_vars

\* the setup step of the evaluation returned
SetupDone == dx_eval # NoneRec /\ dx_eval.setup # NoneRec

Running == SetupDone /\ dx_eval.setup.success /\ dx_eval.pc \in {"loop", "done"}

\* the names of the scenarios, among the first n of the table, that define a
\* command for the tool
DefinedFor(tool, n) ==
    SelectIdx(ScenarioNames,
              {k \in 1..n : tool \in DOMAIN DX_SCENARIOS[k].commands})

\* C15: after a successful setup the records are those of the scenarios passed
\* so far that define a command for the tool, in table order and once each,
\* and the processes started are the setup and the commands of those records.
C15_ScenariosInTableOrder ==
    Running =>
        /\ [k \in DOMAIN dx_eval.scenarios |-> dx_eval.scenarios[k].name]
              = DefinedFor(dx_eval.tool, dx_eval.i - 1)
        /\ dx_eval.spawned
              = <<setup_command(dx_eval.tool)>>
                \o [k \in DOMAIN dx_eval.scenarios |-> dx_eval.scenarios[k].command]
        /\ dx_eval.pc = "done" => dx_eval.i = Len(DX_SCENARIOS) + 1

\* a complete evaluation of piptools: six records in table order, failures
\* and successes among them
C15_Witness ==
    /\ Running
    /\ dx_eval.pc = "done"
    /\ dx_eval.tool = "piptools"
    /\ Len(dx_eval.scenarios) = Len(ScenarioNames)
    /\ dx_eval.scenarios[1].name = "add_dependency" /\ ~dx_eval.scenarios[1].success
    /\ dx_eval.scenarios[6].name = "upgrade_all" /\ dx_eval.scenarios[6].success

\* C16: a scenario record has success exactly when its returncode is 0 and an
\* error (not None) exactly when it has no success.
C16_SuccessIffExitZero ==
    dx_eval # NoneRec =>
        \A k \in DOMAIN dx_eval.scenarios :
            /\ dx_eval.scenarios[k].success <=> dx_eval.scenarios[k].returncode = 0
            /\ dx_eval.scenarios[k].error # None <=> ~dx_eval.scenarios[k].success

\* a command that exits 1 without writing to stderr, one that runs into the
\* timeout and one that exits 0
C16_Witness ==
    /\ dx_eval # NoneRec
    /\ Len(dx_eval.scenarios) = 3
    /\ dx_eval.scenarios[1].returncode = 1 /\ dx_eval.scenarios[1].error = ""
    /\ dx_eval.scenarios[2].returncode = -1 /\ ~dx_eval.scenarios[2].success
    /\ dx_eval.scenarios[3].returncode = 0 /\ dx_eval.scenarios[3].error = None

\* the last step ran a scenario command
ScenarioRan == Running /\ dx_eval.last # NoneRec /\ dx_eval.i > 1
LastRecord == dx_eval.scenarios[Len(dx_eval.scenarios)]

\* C17: the output of a record is the stdout of its command when that has at
\* most 500 characters, else its first 500 characters followed by "...";
\* no output is longer than 503 characters.
C17_OutputTruncated ==
    /\ ScenarioRan =>
          LET stdout == dx_eval.last.result.stdout
          IN  /\ Len(stdout) <= 500 => LastRecord.output = stdout
              /\ Len(stdout) > 500 =>
                    /\ Len(LastRecord.output) = 503
                    /\ SubSeq(LastRecord.output, 1, 500) = SubSeq(stdout, 1, 500)
                    /\ SubSeq(LastRecord.output, 501, 503) = <<46, 46, 46>>
    /\ dx_eval # NoneRec =>
          \A k \in DOMAIN dx_eval.scenarios : Len(dx_eval.scenarios[k].output) <= 503

\* a stdout of 500 characters recorded as it is, then one of 501 characters cut
C17_Witness ==
    /\ ScenarioRan
    /\ Len(dx_eval.scenarios) = 2
    /\ Len(dx_eval.scenarios[1].output) = 500
    /\ Len(dx_eval.last.result.stdout) = 501
    /\ Len(LastRecord.output) = 503

\* C18: a run_command call starts its command once; a timeout gives the record
\* with returncode -1, empty stdout and the "Command timed out" stderr, an exit
\* gives the record with the exit code and the streams; neither raises.
C18_RunCommandOnce ==
    (dx_eval # NoneRec /\ dx_eval.last # NoneRec) =>
        LET proc == dx_eval.last.proc
            result == dx_eval.last.result
        IN  /\ Len(dx_eval.spawned) = dx_eval.ncalls
            /\ dx_eval.spawned[Len(dx_eval.spawned)] = result.command
            /\ dx_eval.pc # "raised"
            /\ proc.kind = "timeout" =>
                  /\ result.returncode = -1
                  /\ result.stdout = <<>>
                  /\ result.stderr = "Command timed out after 120 seconds"
            /\ proc.kind = "exit" =>
                  /\ result.returncode = proc.rc
                  /\ result.stdout = proc.stdout
                  /\ result.stderr = proc.stderr

\* the third call runs into the timeout after a call that exited with 1
C18_Witness ==
    /\ dx_eval # NoneRec /\ dx_eval.last # NoneRec
    /\ dx_eval.ncalls = 3
    /\ dx_eval.last.proc.kind = "timeout"
    /\ dx_eval.last.result.returncode = -1
    /\ dx_eval.scenarios[1].returncode = 1
    /\ Len(dx_eval.spawned) = 3

(***************************************************************************)
(* test_benchmark.py: the installation benchmark, tool by tool             *)
(***************************************************************************)

\* A stderr text is a sequence of words; a keyword is found in it where its
\* words follow one another in the text.
Stderrs ==
    {<<>>,
     <<"WARNING", "pip", "is", "outdated">>,
     <<"ERROR", "resolution", "failed">>,
     <<"uv", "command", "Not", "found">>}

\* str.lower() on the words of the model's texts
LowerWord(w) ==
    CASE w = "WARNING" -> "warning"
      [] w = "ERROR" -> "error"
      [] w = "Error" -> "error"
      [] w = "Not" -> "not"
      [] w = "Command" -> "command"
      [] OTHER -> w
lower(text) == [k \in DOMAIN text |-> LowerWord(text[k])]

\* `s in text`
contains(text, s) ==
    \E k \in 0..(Len(text) - Len(s)) : SubSeq(text, k + 1, k + Len(s)) = s

\* line 129: the keywords of a critical error
FailureKeywords ==
    {<<"error">>, <<"exception">>, <<"no", "module", "named">>,
     <<"not", "found">>, <<"does", "not", "exist">>}

\* what the install script of one tool does: exit code, stderr and seconds
\* taken, or a run beyond the timeout of 300 seconds
InstallProcs ==
    {[kind |-> "exit", rc |-> 0, stderr |-> <<>>, seconds |-> 1],
     [kind |-> "exit", rc |-> 0, stderr |-> <<>>, seconds |-> 2],
     [kind |-> "exit", rc |-> 0, stderr |-> <<"WARNING", "pip", "is", "outdated">>,
      seconds |-> 3],
     [kind |-> "exit", rc |-> 0, stderr |-> <<"ERROR", "resolution", "failed">>,
      seconds |-> 3],
     [kind |-> "timeout", rc |-> 0, stderr |-> <<>>, seconds |-> 300]}
    \cup {[kind |-> "exit", rc |-> 1, stderr |-> e, seconds |-> 1] : e \in Stderrs}

\* lines 50-59 reporting the timeout as an error text: a plausible slip
bench_run_command_timeout_error(command, proc) ==
    IF proc.kind = "exit"
    THEN [command |-> command, returncode |-> proc.rc, stdout |-> Text(2),
          stderr |-> proc.stderr, execution_time |-> R(proc.seconds)]
    ELSE [command |-> command, returncode |-> -1, stdout |-> <<>>,
          stderr |-> <<"Error", "command", "timed", "out">>,
          execution_time |-> R(proc.seconds)]

\* test_benchmark.py lines 29-59
bench_run_command(command, proc) ==
    IF proc.kind = "exit"
    THEN [command |-> command, returncode |-> proc.rc, stdout |-> Text(2),
          stderr |-> proc.stderr, execution_time |-> R(proc.seconds)]
    ELSE [command |-> command, returncode |-> -1, stdout |-> <<>>,
          stderr |-> <<"Command", "timed", "out", "after", "300", "seconds">>,
          execution_time |-> R(proc.seconds)]

\* lines 128-132 without .lower(): a plausible slip
is_critical_case_sensitive(result) ==
    /\ result.returncode # 0
    /\ \E s \in FailureKeywords : contains(result.stderr, s)

\* lines 128-132: the installation failed and its stderr, in lower case, holds
\* a keyword
is_critical(result) ==
    /\ result.returncode # 0
    /\ \E s \in FailureKeywords : contains(lower(result.stderr), s)

\* lines 138-141: the saved form of a result, stdout cut at 500 characters
saved_result(tool, v) ==
    [tool |-> tool, command |-> v.command, returncode |-> v.returncode,
     stdout |-> IF Len(v.stdout) > 500 THEN SubSeq(v.stdout, 1, 500) \o Dots
                ELSE v.stdout,
     stderr |-> v.stderr, execution_time |-> v.execution_time]

\* test_installation_speed is entered (lines 88-94)
InitInstall ==
    /\ ReproIdle
    /\ ReportIdle
    /\ dx_eval = NoneRec
    /\ install_run = [pc |-> "loop", i |-> 1, results |-> <<>>, spawned |-> <<>>]

\* lines 96-134: one pass of the loop over the tools; a critical error ends
\* the process with sys.exit(1)
InstallTool ==
    /\ install_run # NoneRec
    /\ install_run.pc = "loop"
    /\ install_run.i <= Len(TOOLS)
    /\ \E tool \in {TOOLS[install_run.i]}, proc \in InstallProcs :
       \E result \in {bench_run_command(tool, proc)} :
          install_run' = [install_run EXCEPT
              !.pc = IF is_critical(result) THEN "exit" ELSE "loop",
              !.i = @ + 1,
              !.results = Append(@, [tool |-> tool, result |-> result,
                                     proc |-> proc.kind]),
              !.spawned = Append(@, tool)]
    /\ UNCHANGED <<repro_vars, report_vars, dx_eval>>

\* lines 137-142: the results of all tools are saved to
\* installation_benchmark_results.json of the working directory
InstallSave ==
    /\ install_run # NoneRec
    /\ install_run.pc = "loop"
    /\ install_run.i > Len(TOOLS)
    /\ install_run' = [install_run EXCEPT !.pc = "saved"]
    /\ \E content \in {[results |-> [k \in DOMAIN install_run.results |->
                          saved_result(install_run.results[k].tool,
                                       install_run.results[k].result)]]} :
          /\ legacy' = [legacy EXCEPT !["installation_benchmark_results"] = content]
          /\ last_run' = [last_run EXCEPT !["installation"] = content]
    /\ UNCHANGED <<clock, raw, reports, latest_report, error, gen, load_result,
                   invocation>>
    /\ UNCHANGED <<repro_vars, dx_eval>>

SpecInstall == InitInstall /\ [][InstallTool \/ InstallSave]_vars

\* the stderr of the k-th tool evaluated holds a failure keyword
HasKeyword(k) ==
    \E s \in FailureKeywords : contains(lower(install_run.results[k].result.stderr), s)

\* the run stopped at the k-th tool: it was the last one evaluated, the
\* process exited and no results file was written
AbortedAt(k) ==
    /\ install_run.pc = "exit"
    /\ k = Len(install_run.results)
    /\ install_run.spawned = SubSeq(TOOLS, 1, k)
    /\ legacy["installation_benchmark_results"] = NoneRec

\* C19 as stated: a failure keyword in a tool's stderr aborts the run at that
\* tool.
C19_KeywordAborts ==
    install_run # NoneRec =>
        \A k \in DOMAIN install_run.results : HasKeyword(k) => AbortedAt(k)

\* C19 as amended: the run aborts at a tool exactly when that tool's command
\* did not return 0 and its stderr holds a failure keyword.
C19_FailedWithKeywordAborts ==
    install_run # NoneRec =>
        /\ \A k \in DOMAIN install_run.results :
              (install_run.results[k].result.returncode # 0 /\ HasKeyword(k))
                  <=> AbortedAt(k)
        /\ install_run.pc = "exit" => AbortedAt(Len(install_run.results))

\* make prints an error and returns 0, then poetry fails with "Not found":
\* the run ends at poetry
C19_Witness ==
    /\ install_run # NoneRec
    /\ install_run.pc = "exit"
    /\ Len(install_run.results) = 2
    /\ install_run.results[1].result.returncode = 0 /\ HasKeyword(1)
    /\ install_run.results[2].result.stderr = <<"uv", "command", "Not", "found">>
    /\ AbortedAt(2)

(***************************************************************************)
(* The DX success rate                                                     *)
(***************************************************************************)

\* a DX record holds up to MaxDxScenarios scenarios (DX_SCENARIOS has six)
MaxDxScenarios == 6

\* the scenario lists of a record: any number of scenarios up to the maximum,
\* any of them successful
ScenarioOutcomes ==
    UNION {{[i \in 1..n |-> [success |-> i \in S]] : S \in SUBSET (1..n)}
           : n \in 0..MaxDxScenarios}

\* the only artifact is a DX evaluation of poetry and uv
InitDxRate ==
    InitArtifacts({NoneRec}, {NoneRec},
                  {[tools |-> <<[tool |-> "poetry", scenarios |-> v],
                                [tool |-> "uv", scenarios |-> w]>>]
                     : v \in ScenarioOutcomes,
                       w \in {<<>>, <<[success |-> TRUE]>>, <<[success |-> FALSE]>>}},
                  {NoneRec})

SpecDxRate == InitDxRate /\ [][FirstReport]_vars

\* the DX records the last generation loaded
DxRecords == Range(gen.dx_results.tools)

Succeeded(record) ==
    Cardinality({i \in DOMAIN record.scenarios : record.scenarios[i].success})

\* C21: a tool with n >= 1 recorded scenarios, k of them successful, has the
\* DX score 100 * k / n, shown rounded to one decimal (66.7 for 4 of 6); a
\* tool without scenarios is not in the DX data, and nothing is divided by 0.
C21_DxRate ==
    gen # NoneRec =>
        /\ error # "ZeroDivisionError"
        /\ \A record \in DxRecords :
              IF record.scenarios = <<>>
              THEN record.tool \notin Range(gen.dx_data.tools)
              ELSE \E i \in DOMAIN gen.dx_data.tools :
                      /\ gen.dx_data.tools[i] = record.tool
                      /\ gen.dx_data.success_rates[i][1] * Len(record.scenarios)
                            = 100 * Succeeded(record) * gen.dx_data.success_rates[i][2]
                      /\ error = "none" =>
                            /\ latest_report.dx.rows[i].tool = record.tool
                            \* the row shows tenths of a percent, rounded
                            /\ 2 * Len(record.scenarios) * latest_report.dx.rows[i].rate
                                  - 2000 * Succeeded(record)
                                  \in (-Len(record.scenarios))..Len(record.scenarios)
        /\ \A record \in DxRecords :
              (error = "none" /\ Len(record.scenarios) = 6 /\ Succeeded(record) = 4) =>
                  \E i \in DOMAIN latest_report.dx.rows :
                      /\ latest_report.dx.rows[i].tool = record.tool
                      /\ latest_report.dx.rows[i].rate = 667

\* poetry succeeded in 4 of 6 scenarios and uv has no scenarios
C21_Witness ==
    /\ gen # NoneRec
    /\ error = "none"
    /\ \E record \in DxRecords :
          /\ record.tool = "poetry"
          /\ Len(record.scenarios) = 6
          /\ Succeeded(record) = 4
    /\ \E record \in DxRecords : record.tool = "uv" /\ record.scenarios = <<>>
    /\ Len(latest_report.dx.rows) = 1

(***************************************************************************)
(* The unified score with a metric absent                                  *)
(***************************************************************************)

\* the metrics among installation, reproducibility and DX whose results the
\* last generation loaded
ScoredMetricsPresent ==
    Count(<<gen.installation_results # NoneRec,
            gen.reproducibility_results # NoneRec,
            gen.dx_results # NoneRec>>)

\* C22: a report generated from the results of at least two of the three
\* metrics has unified scores and a unified-score section.
C22_TwoMetricsScored ==
    (gen # NoneRec /\ error = "none" /\ ScoredMetricsPresent >= 2) =>
        /\ gen.unified_score_data.status = "ok"
        /\ latest_report.unified # NoneRec

(***************************************************************************)
(* test_reproducibility.py: one loop pass, step by step                    *)
(***************************************************************************)

\* test_tool_reproducibility(tool, iterations=1) with the install script there
InitHash ==
    /\ ReportIdle
    /\ ToolsIdle
    /\ rp_pc = "loop"
    /\ rp_script = TRUE
    /\ hashes = <<>>
    /\ results = <<>>
    /\ rp_record = None
    /\ rp_iterations = 1
    /\ rp_pass = NoneRec

\* lines 147-149: the install script runs in the temporary directory and
\* leaves a virtual environment there, or none
ReproInstall ==
    /\ rp_pc = "loop"
    /\ rp_script
    /\ Len(hashes) = Len(results)
    /\ Len(results) < rp_iterations
    /\ \E run \in ReproRuns, venv \in Venvs :
          /\ results' = Append(results, [returncode |-> run.returncode,
                                          stderr |-> run.stderr])
          /\ rp_pass' = [result |-> run, venv |-> venv, fallback |-> FALSE]
    /\ UNCHANGED <<rp_pc, rp_script, hashes, rp_record, rp_iterations>>
    /\ UNCHANGED <<report_vars, tool_vars>>

\* lines 151-164: the hash is taken from the output, or else from the venv
\* when there is one
ReproHash ==
    /\ rp_pc = "loop"
    /\ Len(hashes) < Len(results)
    /\ \E env_hash \in {extract_hash_from_output(rp_pass.result.stdout)} :
          /\ rp_pass' = [rp_pass EXCEPT !.fallback =
                            env_hash = None /\ rp_pass.venv.dir \in {"tool", "standard"}]
          /\ hashes' = Append(hashes,
                              IF env_hash # None THEN env_hash
                              ELSE IF rp_pass.venv.dir \in {"tool", "standard"}
                              THEN get_env_hash_from_venv(rp_pass.venv)
                              ELSE None)
    /\ UNCHANGED <<rp_pc, rp_script, results, rp_record, rp_iterations>>
    /\ UNCHANGED <<report_vars, tool_vars>>

SpecHash == InitHash /\ [][ReproInstall \/ ReproHash \/ ReproFinish]_vars

\* a loop pass has recorded its hash
PassDone == rp_pass # NoneRec /\ Len(hashes) = Len(results)
out == rp_pass.result.stdout
recorded == hashes[Len(hashes)]

\* the leftmost token of stdout of one of the kinds is at position i
Leftmost(i, kinds) ==
    /\ out[i].kind \in kinds
    /\ \A j \in 1..(i - 1) : out[j].kind \notin kinds

\* C23: the recorded hash is the one of the leftmost labelled token of the
\* output, else the one of its leftmost 32-hex token; the venv fallback is
\* used only when the output holds neither; with no hash from either the
\* recorded hash is None and the tool is reported not reproducible.
C23_HashOfIteration ==
    PassDone =>
        /\ \A i \in DOMAIN out : Leftmost(i, {"label"}) => recorded = out[i].hex
        /\ \A i \in DOMAIN out :
              (Leftmost(i, {"hex"}) /\ \A j \in DOMAIN out : out[j].kind # "label")
                  => recorded = out[i].hex
        /\ rp_pass.fallback => \A j \in DOMAIN out : out[j].kind = "text"
        /\ ((\A j \in DOMAIN out : out[j].kind = "text")
                /\ (~rp_pass.fallback \/ ~rp_pass.venv.python
                    \/ rp_pass.venv.freeze_rc # 0 \/ rp_pass.venv.freeze_out = ""))
              => recorded = None
        /\ (rp_pc = "done" /\ recorded = None) => rp_record.reproducible = FALSE

\* the output holds a bare hash before the labelled one: the labelled one is
\* recorded, without the venv being looked at
C23_Witness ==
    /\ PassDone
    /\ rp_pc = "done"
    /\ Len(out) = 2
    /\ out[1] = [kind |-> "hex", hex |-> "aaaa"]
    /\ out[2] = [kind |-> "label", hex |-> "bbbb"]
    /\ recorded = "bbbb"
    /\ rp_pass.venv.dir = "tool" /\ ~rp_pass.fallback

(***************************************************************************)
(* The installation benchmark: a command that times out                    *)
(***************************************************************************)

\* the install command of the k-th tool evaluated ran into the timeout
TimedOut(k) == install_run.results[k].proc = "timeout"

\* the results file the benchmark wrote
SavedResults == legacy["installation_benchmark_results"].results

hash_consistency(hs) ==
    IF Cardinality(Range(hs) \ {None}) <= 1 /\ None \notin Range(hs) THEN 1 ELSE 0

\* C25: for the record test_tool_reproducibility returns, the hash consistency
\* of the chart is 1 exactly when the record says reproducible.
C25_ConsistencyIffReproducible ==
    rp_pc = "done" =>
        (hash_consistency(rp_record.hashes) = 1 <=> rp_record.reproducible)

(***************************************************************************)
(* The raw copies and the loader                                           *)
(***************************************************************************)

\* the raw copies the last generation wrote
CopiesWritten == {f \in raw : f.suffix = gen.timestamp}

\* C26: every raw copy a generation writes is the file a later
\* load_latest_json finds under one of the prefixes the generator loads.
C26_CopiesFoundByLoader ==
    gen # NoneRec =>
        \A f \in CopiesWritten :
            \E prefix \in LoadPrefixes :
                load_latest_json(raw, legacy, prefix).name
                    = [prefix |-> f.prefix, suffix |-> f.suffix]

(***************************************************************************)
(* The best overall tool                                                   *)
(***************************************************************************)

\* C27: the tool of the 'Best Overall Tool' line is the tool of the first row
\* of the unified-score table.
C27_BestIsFirstRow ==
    HasUnifiedTable => latest_report.unified.best_overall = rows[1].tool

(***************************************************************************)
(* Tools without data for a metric                                         *)
(***************************************************************************)

\* the tools named in the results the last generation loaded
ToolsLoaded ==
    {gen.installation_results.results[i].tool : i \in DOMAIN gen.installation_results.results}
    \cup {gen.reproducibility_results.tools[i].tool : i \in DOMAIN gen.reproducibility_results.tools}
    \cup {gen.dx_results.tools[i].tool : i \in DOMAIN gen.dx_results.tools}

\* C28: with all three metric artifacts present the generation completes and
\* the unified-score table has a row for every tool named in them.  (The
\* division by zero on equal installation times is C3's case and is left out.)
C28_AllToolsInTable ==
    (/\ gen # NoneRec
     /\ gen.installation_results # NoneRec
     /\ gen.reproducibility_results # NoneRec
     /\ gen.dx_results # NoneRec
     /\ error # "ZeroDivisionError") =>
        /\ error = "none"
        /\ latest_report # NoneRec
        /\ latest_report.unified # NoneRec
        /\ {rows[i].tool : i \in DOMAIN rows} = ToolsLoaded

====
